---- MODULE Spec2Model ----
(***************************************************************************)
(* XNote server (src/server.js, lines 1-232): the note store, the note     *)
(* request handlers, and the trash purge scheduler.                        *)
(*                                                                         *)
(* Time is counted in days: the clock is Date.now() in days, so that       *)
(* TRASH_RETENTION_DAYS * 24 * 60 * 60 * 1000 milliseconds is              *)
(* TRASH_RETENTION_DAYS clock units.                                       *)
(***************************************************************************)
EXTENDS Integers, Sequences, FiniteSets, TLC

\* ------------------------------------------------------------------ bounds
\* the store generates at most MaxNotes ids
MaxNotes == 2
\* at most MaxReqs handlers are suspended at `await note.save()` at a time
MaxReqs == 2
\* a run receives at most MaxServed requests
MaxServed == 3
\* the process starts on day StartTime and is followed for RunDays more days
StartTime == 7
RunDays == 1

\* --------------------------------------------------------------- constants
\* deletedAt: { type: Date, default: null }
NullDate == -1
\* Number(process.env.TRASH_RETENTION_DAYS) || 7
DefaultRetentionDays == 7

MaxTime == StartTime + RunDays

VARIABLES
    env,        \* process.env.TRASH_RETENTION_DAYS, fixed at process start
    clock,      \* Date.now(), in days
    notes,      \* the notes collection: _id -> document
    nextId,     \* the next _id the store generates
    req,        \* the handlers suspended at `await note.save()`
    resp,       \* the last HTTP response sent
    cronRan,    \* whether today's 02:00 job has run
    cronLog,    \* the last console line of the purge job
    startup,    \* initialPurgeLog: "pending", or what it logged
    running,    \* the process is up (no uncaught error has ended it)
    served,     \* the number of requests received so far
    span,       \* history: per suspended handler, what it read and who wrote since
    hist        \* history: per note, the last handler saves, oldest first

vars == <<env, clock, notes, nextId, req, resp, cronRan, cronLog, startup,
          running, served, span, hist>>

NoteIds == 1..MaxNotes
Reqs == 1..MaxReqs
\* a request path parameter that is no ObjectId (findById throws CastError)
BadId == 0
Emails == {"u1", "u2"}

\* --------------------------------------------------------------- the schema
\* noteSchema: the defaults a new Note takes for the paths a payload omits
SchemaDefaults ==
    [email |-> "", title |-> "", content |-> "", color |-> "#ffffff",
     pinned |-> FALSE, archived |-> FALSE, deleted |-> FALSE,
     deletedAt |-> NullDate]

\* mutant: the whole body reaches the document
PickedFieldsWholeBody ==
    {"email", "title", "content", "color", "pinned", "archived", "deleted",
     "deletedAt"}

\* new Note({ email, title, content, color, pinned, archived }) and save():
\* only the six destructured fields of the body reach the document.
PickedFields == {"email", "title", "content", "color", "pinned", "archived"}

NewNote(body, now) ==
    [f \in DOMAIN SchemaDefaults \cup {"createdAt", "updatedAt"} |->
        IF f \in {"createdAt", "updatedAt"} THEN now
        ELSE IF f \in PickedFields /\ f \in DOMAIN body THEN body[f]
        ELSE SchemaDefaults[f]]

\* email: { required: true }
Valid(body) == "email" \in DOMAIN body

\* ------------------------------------------------------------ environment
EnvValues == {"unset", "1"}

\* Number(process.env.TRASH_RETENTION_DAYS): NaN for an unset variable
EnvNumber(e) ==
    IF e = "0" THEN [nan |-> FALSE, val |-> 0]
    ELSE IF e = "1" THEN [nan |-> FALSE, val |-> 1]
    ELSE [nan |-> TRUE, val |-> 0]

\* Number(...) || 7: NaN and 0 are falsy
TRASH_RETENTION_DAYS ==
    LET n == EnvNumber(env)
    IN IF n.nan \/ n.val = 0 THEN DefaultRetentionDays ELSE n.val

\* ------------------------------------------------------------- store ops
Exists(id) == id \in DOMAIN notes

Remove(store, ids) == [i \in DOMAIN store \ ids |-> store[i]]

\* mutant: the filter without `deleted: true`
PurgeFilterAnyFlag(n, cutoff) ==
    n.deletedAt # NullDate /\ n.deletedAt <= cutoff

\* mutant: $lt in place of $lte
PurgeFilterStrict(n, cutoff) ==
    n.deleted = TRUE /\ n.deletedAt # NullDate /\ n.deletedAt < cutoff

\* { deleted: true, deletedAt: { $lte: cutoff } }: a null date matches no $lte
PurgeFilter(n, cutoff) ==
    n.deleted = TRUE /\ n.deletedAt # NullDate /\ n.deletedAt <= cutoff

Cutoff(now) == now - TRASH_RETENTION_DAYS

Eligible(store, now) ==
    {i \in DOMAIN store : PurgeFilter(store[i], Cutoff(now))}

\* findByIdAndUpdate(id, { $set: body }): the paths of the body, and updatedAt
ApplySet(n, body, now) ==
    [f \in DOMAIN n |->
        IF f = "updatedAt" THEN now
        ELSE IF f \in DOMAIN body THEN body[f]
        ELSE n[f]]

\* ------------------------------------------------------------- responses
\* res.status(code).json(...): the handler, its :id or :email, the status, the
\* error message, and for a listing the _ids of the documents, in order
Resp(op, id, code, error, body) ==
    [op |-> op, id |-> id, email |-> "", code |-> code, error |-> error,
     body |-> body]

ListResp(op, email, ids) == [Resp(op, 0, 200, "", ids) EXCEPT !.email = email]

NoResp == Resp("none", 0, 0, "", <<>>)

\* ------------------------------------------------- suspended handlers
\* A handler between `await Note.findById` and `await note.save()` holds the
\* document it read, with its assignments applied, and the paths they modified.
NoNote == NewNote(SchemaDefaults, 0)

IdleReq == [pc |-> "idle", op |-> "none", id |-> 0, doc |-> NoNote, mod |-> {}]

\* note.path = value: the path is marked modified only when the value differs
Assign(d, path, value) ==
    [doc |-> [d.doc EXCEPT ![path] = value],
     mod |-> IF d.doc[path] = value THEN d.mod ELSE d.mod \cup {path}]

Loaded(id) == [doc |-> notes[id], mod |-> {}]

\* mutant: a toggle applied to the stored flag when the save lands
SaveDeltaFlipStored(n, d, now) ==
    [f \in DOMAIN n |->
        IF f = "updatedAt" THEN now
        ELSE IF f \in d.mod /\ f \in {"pinned", "archived"} THEN ~n[f]
        ELSE IF f \in d.mod THEN d.doc[f]
        ELSE n[f]]

\* mutant: the save writes the whole document the handler holds
SaveDeltaWholeDocument(n, d, now) == [d.doc EXCEPT !.updatedAt = now]

\* note.save(): $set of the modified paths (and updatedAt) on the stored document
SaveDelta(n, d, now) ==
    [f \in DOMAIN n |->
        IF f = "updatedAt" THEN now
        ELSE IF f \in d.mod THEN d.doc[f]
        ELSE n[f]]

\* ---------------------------------------------------------------- listings
\* Note.find(query): the documents whose paths equal the query's
Matches(n, query) == \A f \in DOMAIN query : n[f] = query[f]

Find(store, query) == {i \in DOMAIN store : Matches(store[i], query)}

\* .sort(keys): keys are <<path, direction>> pairs, most significant first;
\* Before(a, b) when a sorts strictly before b. false < true, and _id breaks
\* no tie: documents equal on every key keep the store's natural (_id) order.
Key(n, path) ==
    IF path \in {"pinned", "archived", "deleted"}
    THEN (IF n[path] THEN 1 ELSE 0)
    ELSE n[path]

RECURSIVE Before(_, _, _, _, _)
Before(store, keys, k, a, b) ==
    IF k > Len(keys) THEN a < b
    ELSE LET ka == Key(store[a], keys[k][1])
             kb == Key(store[b], keys[k][1])
         IN IF ka = kb THEN Before(store, keys, k + 1, a, b)
            ELSE IF keys[k][2] = -1 THEN ka > kb ELSE ka < kb

RECURSIVE SortIds(_, _, _)
SortIds(store, ids, keys) ==
    IF ids = {} THEN <<>>
    ELSE LET first == CHOOSE a \in ids :
                        \A b \in ids \ {a} : Before(store, keys, 1, a, b)
         IN <<first>> \o SortIds(store, ids \ {first}, keys)

\* GET /api/notes
ListAll(store) ==
    SortIds(store, Find(store, [deleted |-> FALSE]), <<<<"createdAt", -1>>>>)

\* mutant: the listing without `deleted: false`
ListActiveAnyFlag(store, email) ==
    SortIds(store, Find(store, [email |-> email]),
            <<<<"pinned", -1>>, <<"createdAt", -1>>>>)

\* mutant: the active listing sorted oldest first
ListActiveOldestFirst(store, email) ==
    SortIds(store, Find(store, [email |-> email, deleted |-> FALSE]),
            <<<<"pinned", -1>>, <<"createdAt", 1>>>>)

\* GET /api/notes/:email
ListActive(store, email) ==
    SortIds(store, Find(store, [email |-> email, deleted |-> FALSE]),
            <<<<"pinned", -1>>, <<"createdAt", -1>>>>)

\* GET /api/notes/trash/:email
ListTrash(store, email) ==
    SortIds(store, Find(store, [email |-> email, deleted |-> TRUE]),
            <<<<"deletedAt", -1>>>>)

\* ---------------------------------------------------------------- history
\* span[r]: the document handler r read, and the operations that wrote to that
\* note since (the first two). hist[id]: the handler saves on note id since the
\* last write of another kind, the last two, each with its span. No action reads
\* either: they name the runs the properties below are about.
NoSpan == [orig |-> NoNote, inter |-> <<>>]

FirstTwo(s) == IF Len(s) > 2 THEN SubSeq(s, 1, 2) ELSE s

LastTwo(s) == IF Len(s) > 2 THEN SubSeq(s, Len(s) - 1, Len(s)) ELSE s

\* the spans after `op` wrote to the notes `ids` (writer: the handler saving, or 0)
Interfered(ids, writer, op) ==
    [r \in Reqs |->
        IF req[r].pc = "saving" /\ req[r].id \in ids /\ r # writer
        THEN [span[r] EXCEPT !.inter = FirstTwo(Append(@, op))]
        ELSE span[r]]

Forget(ids) == [i \in NoteIds |-> IF i \in ids THEN <<>> ELSE hist[i]]

\* ------------------------------------------------------------------- Init
\* a note trashed on day 0, by an earlier run of the server
OldTrashedNote ==
    [NewNote([email |-> "u1", title |-> "A", content |-> "x"], 0)
        EXCEPT !.deleted = TRUE, !.deletedAt = 0]

EmptyStore == [i \in {} |-> NoNote]

Insert(store, id, n) ==
    [i \in DOMAIN store \cup {id} |-> IF i = id THEN n ELSE store[i]]

\* the collection as an earlier run of the server may have left it
InitStores == {EmptyStore, Insert(EmptyStore, 1, OldTrashedNote)}

Init ==
    /\ env \in EnvValues
    /\ clock = StartTime
    /\ notes \in InitStores
    /\ nextId = Cardinality(DOMAIN notes) + 1
    /\ req = [r \in Reqs |-> IdleReq]
    /\ resp = NoResp
    /\ cronRan = FALSE
    /\ cronLog = [kind |-> "none", count |-> 0]
    /\ startup = "pending"
    /\ running = TRUE
    /\ served = 0
    /\ span = [r \in Reqs |-> NoSpan]
    /\ hist = [i \in NoteIds |-> <<>>]

\* --------------------------------------------------------------- requests
\* the request bodies the clients send to POST /api/notes
CreateBodies ==
    {[email |-> "u1", title |-> "A", content |-> "x"],
     [email |-> "u2", title |-> "A", content |-> "x", color |-> "#ff0000",
      pinned |-> TRUE, deleted |-> TRUE, deletedAt |-> 0],
     [title |-> "A", content |-> "x"]}

\* the request bodies the clients send to PUT /api/notes/:id
UpdateBodies ==
    {[title |-> "B"], [deleted |-> TRUE], [deleted |-> FALSE], [deletedAt |-> 0]}

RequestIds == NoteIds \cup {BadId}

\* a request arrives at the running process
Received == running /\ served < MaxServed /\ served' = served + 1

\* POST /api/notes
CreateNote(body) ==
    /\ Received
    /\ IF Valid(body)
       THEN /\ nextId <= MaxNotes
            /\ notes' = Insert(notes, nextId, NewNote(body, clock))
            /\ nextId' = nextId + 1
            /\ resp' = Resp("create", nextId, 201, "", <<>>)
       ELSE /\ UNCHANGED <<notes, nextId>>
            /\ resp' = Resp("create", 0, 400, "ValidationError", <<>>)
    /\ UNCHANGED <<env, clock, req, cronRan, cronLog, startup, running, span, hist>>

\* PUT /api/notes/:id
UpdateNote(id, body) ==
    /\ Received
    /\ IF id = BadId
       THEN /\ resp' = Resp("update", id, 400, "CastError", <<>>)
            /\ UNCHANGED <<notes, span, hist>>
       ELSE IF ~Exists(id)
       THEN /\ resp' = Resp("update", id, 404, "Note not found", <<>>)
            /\ UNCHANGED <<notes, span, hist>>
       ELSE /\ notes' = [notes EXCEPT ![id] = ApplySet(notes[id], body, clock)]
            /\ resp' = Resp("update", id, 200, "", <<>>)
            /\ span' = Interfered({id}, 0, "update")
            /\ hist' = Forget({id})
    /\ UNCHANGED <<env, clock, nextId, req, cronRan, cronLog, startup, running>>

\* DELETE /api/notes/:id
DeleteNote(id) ==
    /\ Received
    /\ IF id = BadId
       THEN /\ resp' = Resp("delete", id, 500, "CastError", <<>>)
            /\ UNCHANGED <<notes, span, hist>>
       ELSE IF ~Exists(id)
       THEN /\ resp' = Resp("delete", id, 404, "Note not found", <<>>)
            /\ UNCHANGED <<notes, span, hist>>
       ELSE /\ notes' = Remove(notes, {id})
            /\ resp' = Resp("delete", id, 200, "", <<>>)
            /\ span' = Interfered({id}, 0, "delete")
            /\ hist' = Forget({id})
    /\ UNCHANGED <<env, clock, nextId, req, cronRan, cronLog, startup, running>>

\* mutant: pinned set, not negated
PinAssignSet(d) == Assign(d, "pinned", TRUE)

\* mutant: deletedAt left as it was
RestoreAssignKeepDate(d) == Assign(d, "deleted", FALSE)

\* mutant: a note already trashed keeps its deletedAt
TrashAssignKeepDate(d, now) ==
    IF d.doc.deleted THEN d
    ELSE Assign(Assign(d, "deleted", TRUE), "deletedAt", now)

\* The assignments each handler makes to the document it read
PinAssign(d) == Assign(d, "pinned", ~d.doc.pinned)

ArchiveAssign(d) == Assign(d, "archived", ~d.doc.archived)

TrashAssign(d, now) == Assign(Assign(d, "deleted", TRUE), "deletedAt", now)

RestoreAssign(d) == Assign(Assign(d, "deleted", FALSE), "deletedAt", NullDate)

Assigned(op, d, now) ==
    CASE op = "pin" -> PinAssign(d)
      [] op = "archive" -> ArchiveAssign(d)
      [] op = "trash" -> TrashAssign(d, now)
      [] op = "restore" -> RestoreAssign(d)

\* const note = await Note.findById(req.params.id); if (!note) return 404;
\* then the handler's assignments, up to `await note.save()`
FindStep(r, op, id) ==
    /\ Received
    /\ IF id = BadId
       THEN /\ resp' = Resp(op, id, 500, "CastError", <<>>)
            /\ UNCHANGED <<req, span>>
       ELSE IF ~Exists(id)
       THEN /\ resp' = Resp(op, id, 404, "Note not found", <<>>)
            /\ UNCHANGED <<req, span>>
       ELSE LET d == Assigned(op, Loaded(id), clock)
            IN /\ req' = [req EXCEPT ![r] =
                            [pc |-> "saving", op |-> op, id |-> id,
                             doc |-> d.doc, mod |-> d.mod]]
               /\ span' = [span EXCEPT ![r] = [orig |-> notes[id], inter |-> <<>>]]
               /\ UNCHANGED resp
    /\ UNCHANGED <<env, clock, notes, nextId, cronRan, cronLog, startup, running, hist>>

\* note.save() on the stored document: nothing is written when no path was modified
Saved(n, d, now) == IF d.mod = {} THEN n ELSE SaveDelta(n, d, now)

\* mutant: a document saved with deleted = true is removed
SaveToHardDelete(store, id, d, now) ==
    IF d.doc.deleted /\ "deleted" \in d.mod
    THEN [i \in DOMAIN store \ {id} |-> store[i]]
    ELSE [store EXCEPT ![id] = Saved(store[id], d, now)]

\* the collection after note.save() of document id
SaveTo(store, id, d, now) == [store EXCEPT ![id] = Saved(store[id], d, now)]

\* mutant: a save that inserts the document when it is gone
SaveStepUpsert(r, op) ==
    /\ running
    /\ req[r].pc = "saving"
    /\ LET id == req[r].id
       IN /\ notes' = Insert(notes, id, [req[r].doc EXCEPT !.updatedAt = clock])
          /\ resp' = Resp(op, id, 200, "", <<>>)
          /\ span' = [span EXCEPT ![r] = NoSpan]
          /\ UNCHANGED hist
    /\ req' = [req EXCEPT ![r] = IdleReq]
    /\ UNCHANGED <<env, clock, nextId, cronRan, cronLog, startup, running, served>>

\* await note.save(); res.json(...): save() rejects with DocumentNotFoundError
\* when the document is gone
SaveStep(r, op) ==
    /\ running
    /\ req[r].pc = "saving"
    /\ LET id == req[r].id
       IN IF ~Exists(id)
          THEN /\ resp' = Resp(op, id, 500, "DocumentNotFoundError", <<>>)
               /\ span' = [span EXCEPT ![r] = NoSpan]
               /\ UNCHANGED <<notes, hist>>
          ELSE /\ notes' = SaveTo(notes, id, req[r], clock)
               /\ resp' = Resp(op, id, 200, "", <<>>)
               /\ span' = [Interfered({id}, r, op) EXCEPT ![r] = NoSpan]
               /\ hist' = [hist EXCEPT ![id] =
                            LastTwo(Append(@, [op |-> op, code |-> resp'.code,
                                               before |-> span[r].orig,
                                               inter |-> span[r].inter]))]
    /\ req' = [req EXCEPT ![r] = IdleReq]
    /\ UNCHANGED <<env, clock, nextId, cronRan, cronLog, startup, running, served>>

\* PATCH /api/notes/:id/pin
PinFind(r, id) ==
    /\ req[r].pc = "idle"
    /\ FindStep(r, "pin", id)

PinSave(r) ==
    /\ req[r].op = "pin"
    /\ SaveStep(r, "pin")

\* PATCH /api/notes/:id/archive
ArchiveFind(r, id) ==
    /\ req[r].pc = "idle"
    /\ FindStep(r, "archive", id)

ArchiveSave(r) ==
    /\ req[r].op = "archive"
    /\ SaveStep(r, "archive")

\* PUT /api/notes/:id/trash
TrashFind(r, id) ==
    /\ req[r].pc = "idle"
    /\ FindStep(r, "trash", id)

TrashSave(r) ==
    /\ req[r].op = "trash"
    /\ SaveStep(r, "trash")

\* PUT /api/notes/:id/restore
RestoreFind(r, id) ==
    /\ req[r].pc = "idle"
    /\ FindStep(r, "restore", id)

RestoreSave(r) ==
    /\ req[r].op = "restore"
    /\ SaveStep(r, "restore")

Listing(op, email, ids) ==
    /\ Received
    /\ resp' = ListResp(op, email, ids)
    /\ UNCHANGED <<env, clock, notes, nextId, req, cronRan, cronLog, startup,
                   running, span, hist>>

\* GET /api/notes
GetAllNotes ==
    /\ running
    /\ Listing("list", "", ListAll(notes))

\* GET /api/notes/:email
GetNotes(email) ==
    /\ running
    /\ Listing("listActive", email, ListActive(notes, email))

\* GET /api/notes/trash/:email
GetTrash(email) ==
    /\ running
    /\ Listing("listTrash", email, ListTrash(notes, email))

\* ------------------------------------------------------------- scheduler
\* Note.deleteMany({ deleted: true, deletedAt: { $lte: cutoff } })
Purged(store, now) == Remove(store, Eligible(store, now))

\* mutant: the job without its try/catch: the rejection ends the process
CronTickUncaught(up) ==
    /\ running
    /\ ~cronRan
    /\ cronRan' = TRUE
    /\ IF up
       THEN /\ notes' = Purged(notes, clock)
            /\ cronLog' = [kind |-> "removed",
                           count |-> Cardinality(DOMAIN notes \ DOMAIN notes')]
            /\ span' = Interfered(DOMAIN notes \ DOMAIN notes', 0, "purge")
            /\ hist' = Forget(DOMAIN notes \ DOMAIN notes')
            /\ UNCHANGED running
       ELSE /\ running' = FALSE
            /\ UNCHANGED <<notes, cronLog, span, hist>>
    /\ UNCHANGED <<env, clock, nextId, req, resp, startup, served>>

\* cron.schedule('0 2 * * *', ...): once a day; `up`: the store answers.
\* A failure is caught and logged.
CronTick(up) ==
    /\ running
    /\ ~cronRan
    /\ cronRan' = TRUE
    /\ IF up
       THEN /\ notes' = Purged(notes, clock)
            /\ cronLog' = [kind |-> "removed",
                           count |-> Cardinality(DOMAIN notes \ DOMAIN notes')]
            /\ span' = Interfered(DOMAIN notes \ DOMAIN notes', 0, "purge")
            /\ hist' = Forget(DOMAIN notes \ DOMAIN notes')
            /\ UNCHANGED running
       ELSE /\ cronLog' = [kind |-> "error", count |-> 0]
            /\ UNCHANGED <<notes, running, span, hist>>
    /\ UNCHANGED <<env, clock, nextId, req, resp, startup, served>>

\* Note.countDocuments({ deleted: true, deletedAt: { $lte: cutoff } })
CountEligible(store, now) == Cardinality(Eligible(store, now))

\* mutant: the startup check removes what it counts
InitialPurgeLogPurging(up) ==
    /\ running
    /\ startup = "pending"
    /\ startup' = IF up /\ CountEligible(notes, StartTime) # 0
                  THEN "logged" ELSE "silent"
    /\ notes' = IF up THEN Purged(notes, StartTime) ELSE notes
    /\ UNCHANGED <<env, clock, nextId, req, resp, cronRan, cronLog,
                   running, served, span, hist>>

\* initialPurgeLog: the cutoff is taken when the process starts, the count
\* when the store answers; a failure is ignored
InitialPurgeLog(up) ==
    /\ running
    /\ startup = "pending"
    /\ startup' = IF up /\ CountEligible(notes, StartTime) # 0
                  THEN "logged" ELSE "silent"
    /\ UNCHANGED <<env, clock, notes, nextId, req, resp, cronRan, cronLog,
                   running, served, span, hist>>

\* a day passes; the startup count and the day's job have run by then
AdvanceClock ==
    /\ running
    /\ clock < MaxTime
    /\ cronRan
    /\ startup # "pending"
    /\ clock' = clock + 1
    /\ cronRan' = FALSE
    /\ UNCHANGED <<env, notes, nextId, req, resp, cronLog, startup, running,
                   served, span, hist>>

Next ==
    \/ \E b \in CreateBodies : CreateNote(b)
    \/ \E id \in RequestIds, b \in UpdateBodies : UpdateNote(id, b)
    \/ \E id \in RequestIds : DeleteNote(id)
    \/ \E r \in Reqs, id \in RequestIds : PinFind(r, id)
    \/ \E r \in Reqs : PinSave(r)
    \/ \E r \in Reqs, id \in RequestIds : ArchiveFind(r, id)
    \/ \E r \in Reqs : ArchiveSave(r)
    \/ \E r \in Reqs, id \in RequestIds : TrashFind(r, id)
    \/ \E r \in Reqs : TrashSave(r)
    \/ \E r \in Reqs, id \in RequestIds : RestoreFind(r, id)
    \/ \E r \in Reqs : RestoreSave(r)
    \/ GetAllNotes
    \/ \E e \in Emails : GetNotes(e)
    \/ \E e \in Emails : GetTrash(e)
    \/ \E up \in BOOLEAN : CronTick(up)
    \/ \E up \in BOOLEAN : InitialPurgeLog(up)
    \/ AdvanceClock

Spec == Init /\ [][Next]_vars

\* ================================================================ properties
Range(s) == {s[i] : i \in 1..Len(s)}

\* a step of the purge job
TickStep == ~cronRan /\ cronRan'

\* the records a step removes
Removed == DOMAIN notes \ DOMAIN notes'

\* The last two operations on note id were handlers op1 then op2, one after the
\* other: nothing wrote to the note while either was suspended, so op2 read
\* after op1 had saved, and nothing else wrote to the note in between.
SerialPair(id, op1, op2) ==
    /\ Len(hist[id]) = 2
    /\ hist[id][1].op = op1 /\ hist[id][1].inter = <<>>
    /\ hist[id][2].op = op2 /\ hist[id][2].inter = <<>>

\* The last two operations on note id were two handlers op that overlapped:
\* both read the note before either saved, and nothing else wrote to it.
RacePair(id, op) ==
    /\ Len(hist[id]) = 2
    /\ hist[id][1].op = op /\ hist[id][1].inter = <<>>
    /\ hist[id][2].op = op /\ hist[id][2].inter = <<op>>

SameExceptUpdatedAt(a, b) == \A f \in DOMAIN a \ {"updatedAt"} : a[f] = b[f]

Active(n) == n.deleted = FALSE /\ n.deletedAt = NullDate

\* C1: in every reachable state every existing note has deleted = true exactly
\* when deletedAt is not null.
C1_DeletedIffDeletedAt ==
    \A id \in DOMAIN notes :
        (notes[id].deleted = TRUE) <=> (notes[id].deletedAt # NullDate)

\* C2: every record a scheduler tick removes had deleted = true and
\* deletedAt <= now - retention when the tick ran; a note trashed more recently,
\* or with deleted = false, survives the tick unchanged.
C2_PurgeOnlyExpired ==
    [][TickStep =>
        /\ \A id \in Removed :
            /\ notes[id].deleted = TRUE
            /\ notes[id].deletedAt # NullDate
            /\ notes[id].deletedAt <= clock - TRASH_RETENTION_DAYS
        /\ \A id \in DOMAIN notes :
            (notes[id].deleted = FALSE
             \/ notes[id].deletedAt > clock - TRASH_RETENTION_DAYS)
            => id \in DOMAIN notes' /\ notes'[id] = notes[id]]_vars

\* C2 witness: today's tick removed a record while a note trashed inside the
\* retention window is still stored.
C2_Witness ==
    /\ cronRan /\ cronLog.kind = "removed" /\ cronLog.count > 0
    /\ \E id \in DOMAIN notes :
        notes[id].deleted /\ notes[id].deletedAt > clock - TRASH_RETENTION_DAYS

\* C3 (as claimed): a record whose deleted flag is true is removed only by a
\* step of the Trash Scheduler, never by a user request.
C3_OnlySchedulerPurgesTrashed ==
    [][\A id \in Removed : notes[id].deleted = TRUE => TickStep]_vars

\* C3 (amended): a record is removed only by a step of the Trash Scheduler or
\* by a permanent-delete request for that id answered 200, whatever its deleted
\* flag; no other request removes a record.
C3_RemovedOnlyByPurgeOrDelete ==
    [][\A id \in Removed :
        \/ TickStep
        \/ served' = served + 1 /\ resp' = Resp("delete", id, 200, "", <<>>)]_vars

\* C3 witness: the only request received was a permanent delete of the note
\* the store held trashed at startup, and it removed that note.
C3_Witness ==
    /\ served = 1 /\ nextId = 2 /\ cronLog.kind = "none"
    /\ resp = Resp("delete", 1, 200, "", <<>>)
    /\ 1 \notin DOMAIN notes

\* C4 (as claimed): after soft-delete then restore of any existing note, with
\* nothing else on the note in between, every field but updatedAt is as before.
C4_TrashRestoreRoundTrip ==
    \A id \in DOMAIN notes :
        SerialPair(id, "trash", "restore")
        => SameExceptUpdatedAt(notes[id], hist[id][1].before)

\* C4 (amended): the same for a note that was Active (deleted = false,
\* deletedAt = null) before the soft-delete.
C4_ActiveTrashRestoreRoundTrip ==
    \A id \in DOMAIN notes :
        SerialPair(id, "trash", "restore") /\ Active(hist[id][1].before)
        => SameExceptUpdatedAt(notes[id], hist[id][1].before)

\* C4 witness: an Active note was soft-deleted (the save wrote deleted and
\* deletedAt) and then restored.
C4_Witness ==
    \E id \in DOMAIN notes :
        /\ SerialPair(id, "trash", "restore")
        /\ Active(hist[id][1].before)
        /\ hist[id][2].before.deleted /\ hist[id][2].before.deletedAt # NullDate

\* C5: two pin toggles of a note, the second started after the first completed,
\* leave pinned at its original value; likewise two archive toggles and archived.
C5_DoubleToggle ==
    \A id \in DOMAIN notes :
        /\ SerialPair(id, "pin", "pin")
           => notes[id].pinned = hist[id][1].before.pinned
        /\ SerialPair(id, "archive", "archive")
           => notes[id].archived = hist[id][1].before.archived

\* C5 witness: a note was pin-toggled twice in a row, the first toggle having
\* changed the flag.
C5_Witness ==
    \E id \in DOMAIN notes :
        /\ SerialPair(id, "pin", "pin")
        /\ hist[id][2].before.pinned # hist[id][1].before.pinned

\* C6: when two pin toggles of a note overlap (both read before either saves)
\* both read the same value, both answer 200, and pinned ends as the negation of
\* the original: one flip is lost. Executed one after the other, both answer 200
\* and pinned ends at the original value.
C6_PinToggleRace ==
    \A id \in DOMAIN notes :
        /\ RacePair(id, "pin")
           => /\ hist[id][2].before.pinned = hist[id][1].before.pinned
              /\ notes[id].pinned = ~hist[id][1].before.pinned
              /\ hist[id][1].code = 200 /\ hist[id][2].code = 200
        /\ SerialPair(id, "pin", "pin")
           => /\ hist[id][2].before.pinned = ~hist[id][1].before.pinned
              /\ notes[id].pinned = hist[id][1].before.pinned
              /\ hist[id][1].code = 200 /\ hist[id][2].code = 200

\* C6 witness: two overlapping pin toggles have both saved.
C6_Witness == \E id \in DOMAIN notes : RacePair(id, "pin")

\* C7: a restore that nothing but the purge job can have interfered with ends
\* in one of two ways: it answers 200 and leaves the note stored and Active, or
\* the purge has removed the record and it answers 404 NotFound. It ends in no
\* other error.
C7_RestoreVsPurge ==
    [][\A r \in Reqs :
        (/\ req[r].pc = "saving" /\ req[r].op = "restore"
         /\ span[r].inter \in {<<>>, <<"purge">>}
         /\ req'[r].pc = "idle")
        => LET id == req[r].id
           IN \/ /\ resp'.code = 200
                 /\ id \in DOMAIN notes' /\ Active(notes'[id])
              \/ /\ resp'.code = 404
                 /\ id \notin DOMAIN notes']_vars

\* C8: for every email, the active listing holds exactly the notes of that
\* email with deleted = false, the trash listing exactly those with deleted =
\* true, each once; the global listing holds no note with deleted = true; no
\* note is in both the active and the trash listing.
C8_Listings ==
    \A e \in Emails :
        LET active == ListActive(notes, e)
            trash == ListTrash(notes, e)
        IN /\ Range(active) =
                {i \in DOMAIN notes : notes[i].email = e /\ notes[i].deleted = FALSE}
           /\ Range(trash) =
                {i \in DOMAIN notes : notes[i].email = e /\ notes[i].deleted = TRUE}
           /\ Len(active) = Cardinality(Range(active))
           /\ Len(trash) = Cardinality(Range(trash))
           /\ \A i \in Range(ListAll(notes)) : notes[i].deleted = FALSE
           /\ Range(active) \cap Range(trash) = {}

\* C8 witness: an active listing was just answered for a user who has both an
\* active and a trashed note.
C8_Witness ==
    /\ resp.op = "listActive" /\ resp.body = ListActive(notes, resp.email)
    /\ resp.body # <<>>
    /\ ListTrash(notes, resp.email) # <<>>

\* C9: a tick that succeeds removes every note that is then trashed with
\* deletedAt <= now - retention, so that no trash listing holds it afterwards;
\* and a removed record never comes back.
C9_ExpiredPurgedByNextTick ==
    [][/\ (TickStep /\ cronLog'.kind = "removed")
          => \A id \in DOMAIN notes :
                (/\ notes[id].deleted = TRUE
                 /\ notes[id].deletedAt # NullDate
                 /\ notes[id].deletedAt <= clock - TRASH_RETENTION_DAYS)
                => /\ id \notin DOMAIN notes'
                   /\ \A e \in Emails : id \notin Range(ListTrash(notes', e))
       /\ \A id \in NoteIds :
            (id < nextId /\ id \notin DOMAIN notes) => id \notin DOMAIN notes']_vars

\* C9 witness: the note the store held trashed at startup was removed by the
\* tick, and the one request received since, the trash listing of its owner,
\* was answered without it.
C9_Witness ==
    /\ served = 1 /\ nextId = 2 /\ 1 \notin DOMAIN notes
    /\ cronLog = [kind |-> "removed", count |-> 1]
    /\ resp = ListResp("listTrash", "u1", <<>>)

\* C10: a tick that fails is only logged: it leaves the store and the suspended
\* handlers as they were, does not end the process and is not run again that
\* day; the next day's tick runs, and when it succeeds removes the eligible notes.
C10_FailedTickOnlyLogged ==
    [][/\ (TickStep /\ cronLog'.kind # "removed")
          => /\ notes' = notes /\ req' = req
             /\ cronLog'.kind = "error"
             /\ running'
             /\ cronRan' /\ clock' = clock
       /\ (TickStep /\ cronLog.kind = "error" /\ cronLog'.kind = "removed")
          => Eligible(notes, clock) \cap DOMAIN notes' = {}]_vars

\* C10 witness: no request was received, the note the store held trashed at
\* startup outlived the first day (whose tick, had it succeeded, would have
\* removed it: so it failed), and the second day's tick removed it.
C10_Witness ==
    /\ served = 0 /\ nextId = 2 /\ running
    /\ clock = StartTime + 1 /\ cronRan
    /\ cronLog = [kind |-> "removed", count |-> 1]
    /\ notes = EmptyStore

\* the handlers that take the :id of a note
IdOps == {"pin", "archive", "trash", "restore", "update", "delete"}

\* a step in which a request on a note id was answered at once: no handler was
\* left suspended
AnsweredAtOnce == served' = served + 1 /\ req' = req /\ resp'.op \in IdOps

\* C11: a pin, archive, soft-delete, restore, update or permanent-delete request
\* whose id resolves to no stored record is answered 404 "Note not found" and
\* leaves the store unchanged.
C11_UnresolvedIdNotFound ==
    [][(AnsweredAtOnce /\ resp'.id \notin DOMAIN notes)
        => /\ resp'.code = 404 /\ resp'.error = "Note not found"
           /\ notes' = notes]_vars

\* C12: the startup check leaves the store as it was, whether or not it finds
\* eligible notes and whether or not the store answers; a step that removes a
\* record is a step of the purge job or a permanent delete answered 200.
C12_StartupCheckReadOnly ==
    [][/\ (startup = "pending" /\ startup' # "pending") => notes' = notes
       /\ Removed # {}
          => \/ TickStep
             \/ /\ served' = served + 1
                /\ resp'.op = "delete" /\ resp'.code = 200
                /\ Removed = {resp'.id}]_vars

\* C12 witness: the startup check has run first, found the eligible note and
\* logged it, and the note is stored as before.
C12_Witness ==
    /\ startup = "logged" /\ served = 0 /\ ~cronRan /\ clock = StartTime
    /\ notes = Insert(EmptyStore, 1, OldTrashedNote)

\* the flag a toggle handler assigns
ToggledFlag(op) == IF op = "pin" THEN "pinned" ELSE "archived"

\* C13: the save of a pin toggle on a stored note answers 200 and changes at
\* most pinned and updatedAt of that note, the save of an archive toggle at
\* most archived and updatedAt, whatever the note's deleted flag; every other
\* field and every other note is left as it was.
C13_ToggleFrame ==
    [][\A r \in Reqs :
        (/\ req[r].pc = "saving" /\ req[r].op \in {"pin", "archive"}
         /\ req'[r].pc = "idle"
         /\ req[r].id \in DOMAIN notes)
        => LET id == req[r].id
           IN /\ resp' = Resp(req[r].op, id, 200, "", <<>>)
              /\ DOMAIN notes' = DOMAIN notes
              /\ \A i \in DOMAIN notes \ {id} : notes'[i] = notes[i]
              /\ \A f \in DOMAIN notes[id] \ {ToggledFlag(req[r].op), "updatedAt"} :
                    notes'[id][f] = notes[id][f]]_vars

\* C13 witness: the only request received was a pin toggle of the note the
\* store held trashed at startup; it answered 200, the note is pinned and still
\* trashed with its deletedAt.
C13_Witness ==
    /\ served = 1 /\ resp = Resp("pin", 1, 200, "", <<>>)
    /\ 1 \in DOMAIN notes
    /\ notes[1].pinned /\ notes[1].deleted /\ notes[1].deletedAt = 0

\* C14: a record that has been removed is never stored again: no step brings
\* back an id the store has generated and no longer holds, and a handler that
\* read the note before the removal and saves after it leaves the store as it
\* is.
C14_PurgedIsTerminal ==
    [][/\ \A id \in NoteIds :
            (id < nextId /\ id \notin DOMAIN notes) => id \notin DOMAIN notes'
       /\ \A r \in Reqs :
            (/\ req[r].pc = "saving" /\ req'[r].pc = "idle"
             /\ req[r].id \notin DOMAIN notes)
            => notes' = notes]_vars

\* C14 witness: a handler that had read a note saved after the note was
\* removed; the note is not stored.
C14_Witness ==
    /\ resp.error = "DocumentNotFoundError"
    /\ resp.id \in NoteIds /\ resp.id < nextId
    /\ resp.id \notin DOMAIN notes

\* C15: the note a POST /api/notes stores has deleted = false and deletedAt =
\* null whatever the payload holds, and pinned, archived and color are the
\* payload's, or false, false and "#ffffff" where the payload omits them.
C15_CreatedNoteIsActive ==
    [][nextId' # nextId
        => LET id == nextId
           IN /\ resp' = Resp("create", id, 201, "", <<>>)
              /\ id \notin DOMAIN notes /\ id \in DOMAIN notes'
              /\ notes'[id].deleted = FALSE
              /\ notes'[id].deletedAt = NullDate
              /\ \E b \in CreateBodies :
                    /\ "email" \in DOMAIN b /\ notes'[id].email = b.email
                    /\ notes'[id].pinned =
                         (IF "pinned" \in DOMAIN b THEN b.pinned ELSE FALSE)
                    /\ notes'[id].archived =
                         (IF "archived" \in DOMAIN b THEN b.archived ELSE FALSE)
                    /\ notes'[id].color =
                         (IF "color" \in DOMAIN b THEN b.color ELSE "#ffffff")]_vars

\* C15 witness: the only request received was the POST whose payload holds
\* deleted and deletedAt; its note is stored Active, with the payload's color
\* and pinned and the default archived.
C15_Witness ==
    /\ served = 1 /\ resp.op = "create" /\ resp.code = 201
    /\ resp.id \in DOMAIN notes
    /\ notes[resp.id].email = "u2" /\ notes[resp.id].color = "#ff0000"
    /\ notes[resp.id].pinned /\ ~notes[resp.id].archived
    /\ Active(notes[resp.id])

\* C16: the soft-delete handler assigns deleted = true and deletedAt = now to
\* the note it read, trashed already or not; its save, when nothing else wrote
\* to the note meanwhile, answers 200 and stores both; and a tick of the purge
\* job keeps every note whose deletedAt is inside the retention window, so a
\* re-trashed note starts a new window.
C16_TrashRestartsRetention ==
    [][/\ \A r \in Reqs :
            (req[r].pc = "idle" /\ req'[r].pc = "saving" /\ req'[r].op = "trash")
            => /\ req'[r].doc.deleted = TRUE
               /\ req'[r].doc.deletedAt = clock
       /\ \A r \in Reqs :
            (/\ req[r].pc = "saving" /\ req[r].op = "trash"
             /\ req'[r].pc = "idle" /\ span[r].inter = <<>>)
            => LET id == req[r].id
               IN /\ resp' = Resp("trash", id, 200, "", <<>>)
                  /\ id \in DOMAIN notes'
                  /\ notes'[id].deleted = TRUE
                  /\ notes'[id].deletedAt = req[r].doc.deletedAt
       /\ TickStep
          => \A id \in DOMAIN notes :
                notes[id].deletedAt > clock - TRASH_RETENTION_DAYS
                => id \in DOMAIN notes']_vars

\* C16 witness: the note the store held trashed since day 0 was trashed again
\* on the day the process started, and outlived a tick of the purge job that
\* succeeded after that.
C16_Witness ==
    /\ 1 \in DOMAIN notes
    /\ notes[1].deleted /\ notes[1].deletedAt = StartTime
    /\ Len(hist[1]) >= 1
    /\ LET last == hist[1][Len(hist[1])]
       IN /\ last.op = "trash" /\ last.inter = <<>>
          /\ last.before.deleted /\ last.before.deletedAt = 0
    /\ cronRan /\ cronLog = [kind |-> "removed", count |-> 0]

\* C17: in the active listing of a user a pinned note precedes an unpinned
\* one, and of two notes with the same pinned the one created later precedes
\* the other (archived plays no part); in the trash listing the note with the
\* later deletedAt precedes.
C17_ListingOrder ==
    \A e \in Emails :
        LET active == ListActive(notes, e)
            trash == ListTrash(notes, e)
        IN /\ \A i, j \in 1..Len(active) :
                i < j
                => LET a == notes[active[i]]
                       b == notes[active[j]]
                   IN \/ a.pinned /\ ~b.pinned
                      \/ a.pinned = b.pinned /\ a.createdAt >= b.createdAt
           /\ \A i, j \in 1..Len(trash) :
                i < j => notes[trash[i]].deletedAt >= notes[trash[j]].deletedAt

\* C17 witness: an active listing was just answered with two notes, the one
\* created later first.
C17_Witness ==
    /\ resp.op = "listActive" /\ resp.body = ListActive(notes, resp.email)
    /\ Len(resp.body) = 2
    /\ notes[resp.body[1]].pinned = notes[resp.body[2]].pinned
    /\ notes[resp.body[1]].createdAt > notes[resp.body[2]].createdAt

\* ------------------------------------------------- the retention setting
\* The purge job and the startup check under every setting of
\* TRASH_RETENTION_DAYS, over the stores an earlier run may have left.
RetentionSettings == {"unset", "0", "1"}

\* a note trashed on day d
TrashedOn(d) == [OldTrashedNote EXCEPT !.deletedAt = d, !.updatedAt = d]

TrashDays == {0, StartTime - 1, StartTime}

RetentionStores ==
    {EmptyStore}
    \cup {Insert(EmptyStore, 1, TrashedOn(d)) : d \in TrashDays}
    \cup {Insert(Insert(EmptyStore, 1, TrashedOn(d1)), 2, TrashedOn(d2)) :
            d1 \in TrashDays, d2 \in TrashDays}

InitRetention ==
    /\ env \in RetentionSettings
    /\ clock = StartTime
    /\ notes \in RetentionStores
    /\ nextId = Cardinality(DOMAIN notes) + 1
    /\ req = [r \in Reqs |-> IdleReq]
    /\ resp = NoResp
    /\ cronRan = FALSE
    /\ cronLog = [kind |-> "none", count |-> 0]
    /\ startup = "pending"
    /\ running = TRUE
    /\ served = 0
    /\ span = [r \in Reqs |-> NoSpan]
    /\ hist = [i \in NoteIds |-> <<>>]

NextRetention ==
    \/ \E up \in BOOLEAN : CronTick(up)
    \/ \E up \in BOOLEAN : InitialPurgeLog(up)
    \/ AdvanceClock

SpecRetention == InitRetention /\ [][NextRetention]_vars

\* the number of days the setting states, 7 when it is unset
ConfiguredDays == IF env = "unset" THEN 7 ELSE IF env = "0" THEN 0 ELSE 1

\* C18: a tick that succeeds removes exactly the trashed notes with deletedAt
\* <= now minus the configured number of days (7 only when the setting is
\* unset), and the startup check logs only when such a note exists at startup.
C18_RetentionIsConfigured ==
    [][/\ (TickStep /\ cronLog'.kind = "removed")
          => Removed = {id \in DOMAIN notes :
                          /\ notes[id].deleted
                          /\ notes[id].deletedAt # NullDate
                          /\ notes[id].deletedAt <= clock - ConfiguredDays}
       /\ (startup = "pending" /\ startup' = "logged")
          => \E id \in DOMAIN notes :
                /\ notes[id].deleted
                /\ notes[id].deletedAt # NullDate
                /\ notes[id].deletedAt <= StartTime - ConfiguredDays]_vars

====
